---- MODULE Spec2Model ----
(***************************************************************************)
(* Model of the concurrent site crawler of web_crawler_comprehensive.py    *)
(* (ComprehensiveWebCrawler: worker, crawl, process_collected_data) and of *)
(* its caller run_crawl_with_fallback in crawler_fallback.py.              *)
(*                                                                         *)
(* The workers are asyncio tasks on one event loop: the code between two   *)
(* awaits that suspend runs atomically, and each action below is one such  *)
(* stretch of ComprehensiveWebCrawler.worker.                              *)
(*                                                                         *)
(* Spec and LiveSpec are the crawl; FallbackSpec is run_crawl_with_fallback;*)
(* AggregateSpec, ExtractSpec and FetchSpec run process_collected_data,    *)
(* extract_comprehensive_data and fetch_page_with_retry on bounded inputs; *)
(* MergeSpec runs the merge of page records; DetectSpec is the crawl with  *)
(* the content of each page settled when it is loaded.                     *)
(***************************************************************************)
EXTENDS Integers, Sequences, FiniteSets, TLC

\* ------------------------------------------------------------------ bounds
Concurrency == 2       \* number of worker tasks (crawl: range(self.concurrency))
MaxPagesBound == 3     \* max_pages is drawn from 1..MaxPagesBound
MaxDepthBound == 2     \* max_depth is 1 or MaxDepthBound

Workers == 1..Concurrency

\* ------------------------------------------------------------------ URLs
\* A URL string is modelled by its parts: "http://" host path query frag.
U(h, p, q, f) == [host |-> h, path |-> p, query |-> q, frag |-> f]

NoURL == U("", "", "", "")

\* urlparse(url).netloc
Netloc(u) == u.host

\* link['url'].split('#')[0].split('?')[0]
StripFragmentAndQuery(u) == [u EXCEPT !.query = "", !.frag = ""]

\* base_url.rstrip('/'): only a URL string whose last character is '/' changes
RstripSlash(u) ==
    IF u.query = "" /\ u.frag = "" /\ u.path = "/" THEN [u EXCEPT !.path = ""] ELSE u

\* The URLs a caller may hand to the crawler.
RootURLs == { U("a.com", "/", "", ""), U("a.com", "/about", "?x", "") }

\* The site: the a[href] values of the document served for a URL (the server
\* ignores query and fragment; "" and "/" are the same document). a.href is
\* absolute and already deduplicated by the page script.
SiteLinks(u) ==
    CASE u.path \in {"", "/"} ->
            << [url |-> U("a.com", "/about", "?x", ""), text |-> "About"],
               [url |-> U("a.com", "/about", "", "#f"), text |-> "Team"],
               [url |-> U("a.com", "/faq", "", ""),     text |-> "FAQ"],
               [url |-> U("b.com", "/ad", "", ""),      text |-> "Partner"] >>
      [] u.path = "/about" ->
            << [url |-> U("a.com", "/about", "?x", ""), text |-> "About"],
               [url |-> U("a.com", "/faq", "", ""),     text |-> "FAQ"] >>
      [] u.path = "/faq" ->
            << [url |-> U("a.com", "/blog", "", ""),    text |-> "Blog"],
               [url |-> U("b.com", "/ad", "", ""),      text |-> "Partner"] >>
      [] OTHER -> << >>

\* get_link_priority: the keywords of each list that occur in the URL or the
\* link text (lower-cased), scored 20 once, 15 / 8 / 4 per keyword.
KeywordsIn(u) ==
    CASE u.path = "/about" -> [boost |-> TRUE,  critical |-> 1, high |-> 0, medium |-> 0]
      [] u.path = "/faq"   -> [boost |-> TRUE,  critical |-> 0, high |-> 1, medium |-> 0]
      [] u.path = "/blog"  -> [boost |-> FALSE, critical |-> 0, high |-> 0, medium |-> 1]
      [] OTHER             -> [boost |-> FALSE, critical |-> 0, high |-> 0, medium |-> 0]

get_link_priority(u) ==
    LET k == KeywordsIn(u)
    IN  (IF k.boost THEN 20 ELSE 0) + 15 * k.critical + 8 * k.high + 4 * k.medium

\* ------------------------------------------------------------------ state
VARIABLES
    base_url,           \* self.base_url
    domain,             \* self.domain
    max_depth,          \* self.max_depth
    max_pages,          \* self.max_pages
    progress_callback,  \* "none" | "ok" | "raises": the callback given to crawl()
    pending_urls,       \* self.pending_urls: the frontier, a FIFO of tasks
    visited_urls,       \* self.visited_urls
    pages,              \* self.collected_data['pages']
    metrics,            \* self.metrics (the counters)
    crawl_complete,     \* self.crawl_complete
    pc,                 \* where each worker task is suspended
    item,               \* the task each worker holds
    page_data,          \* the record each worker extracted
    page,               \* what the page each worker loaded shows to the bot detection
    detection,          \* history: what handle_bot_detection returned to each worker, and its sleeps
    phase,              \* crawl(): "init" | "running" | "cancelling" | "returned" | "raised"
    timed_out,          \* the 300 s wait_for of crawl() expired
    result,             \* what crawl() returned
    fetch_count,        \* history: fetch_page_with_retry calls started, per URL
    fate,               \* history: how the processing of each URL ended
    writes,             \* history: the shared state the workers wrote, with or without the lock
    fb_input,           \* run_crawl_with_fallback: what its collaborators will do
    fb_pc,              \* run_crawl_with_fallback: "start" | "fallback" | "returned" | "raised"
    fb_calls,           \* history: calls made by run_crawl_with_fallback
    fb_result,          \* what run_crawl_with_fallback returned
    collected_data,     \* process_collected_data: the self.collected_data it is run on
    set_order,          \* the iteration order of a set of strings in this process
    agg_results,        \* history: what each run of process_collected_data returned
    ex_input,           \* extract_comprehensive_data: the page type and the script that throws
    ex_data,            \* extract_comprehensive_data: the data it returned
    ft_input,           \* fetch_page_with_retry: the outcome of each page.goto in turn
    ft_result           \* fetch_page_with_retry: what it returned and what it did

vars == << base_url, domain, max_depth, max_pages, progress_callback,
           pending_urls, visited_urls, pages, metrics, crawl_complete,
           pc, item, page_data, page, detection, phase, timed_out, result,
           fetch_count, fate, writes,
           fb_input, fb_pc, fb_calls, fb_result,
           collected_data, set_order, agg_results,
           ex_input, ex_data, ft_input, ft_result >>

fbvars == << fb_input, fb_pc, fb_calls, fb_result >>

aggvars == << collected_data, set_order, agg_results >>

extractvars == << ex_input, ex_data >>

fetchvars == << ft_input, ft_result >>

\* what no step of the crawl touches
outside == << fbvars, aggvars, extractvars, fetchvars >>

crawlvars == << base_url, domain, max_depth, max_pages, progress_callback,
                pending_urls, visited_urls, pages, metrics, crawl_complete,
                pc, item, page_data, page, detection, phase, timed_out, result,
                fetch_count, fate, writes >>

\* the page a worker has open and what the bot detection made of it
botvars == << page, detection >>

config == << base_url, domain, max_depth, max_pages, progress_callback >>

NoItem == [url |-> NoURL, depth |-> 0, priority |-> 0]
NoData == [url |-> NoURL, colors |-> "list", links |-> << >>]
\* a worker with no page open: nothing for the bot detection to find
NoPage == [cloudflare |-> FALSE, captcha |-> FALSE, blocked |-> FALSE, throws |-> FALSE]
NoDetection == [status |-> "", sleeps |-> 0]
NoResult == [success |-> FALSE, pages_crawled |-> 0,
             metrics |-> [pages_crawled |-> 0, pages_failed |-> 0, retry_count |-> 0,
                          captcha_count |-> 0, blocked_count |-> 0]]

\* __init__ and the first lines of crawl(): the frontier is seeded with base_url.
CrawlInit ==
    /\ \E root \in RootURLs :
          /\ base_url = RstripSlash(root)
          /\ domain = Netloc(root)
    /\ max_depth \in {1, MaxDepthBound}
    /\ max_pages \in 1..MaxPagesBound
    /\ progress_callback \in {"none", "ok", "raises"}
    /\ pending_urls = << [url |-> base_url, depth |-> 0, priority |-> 100] >>
    /\ visited_urls = {}
    /\ pages = << >>
    /\ metrics = [pages_crawled |-> 0, pages_failed |-> 0, retry_count |-> 0,
                  captcha_count |-> 0, blocked_count |-> 0]
    /\ crawl_complete = FALSE
    /\ pc = [w \in Workers |-> "loop"]
    /\ item = [w \in Workers |-> NoItem]
    /\ page_data = [w \in Workers |-> NoData]
    /\ page = [w \in Workers |-> NoPage]
    /\ detection = [w \in Workers |-> NoDetection]
    /\ phase = "init"
    /\ timed_out = FALSE
    /\ result = NoResult
    /\ fetch_count = [u \in {} |-> 0]
    /\ fate = [u \in {} |-> ""]
    /\ writes = {}

NoFallbackInput == [browser |-> "none", progress_bar |-> FALSE,
                    brand_intel |-> "none", products |-> [kind |-> "none", n |-> 0]]
NoCalls == [run_comprehensive_crawl |-> 0, enhanced_scrape |-> 0,
            fetch_products_from_url |-> 0]
NoDict == [success |-> FALSE, keys |-> {}, kind |-> [k \in {} |-> ""], products |-> 0]

\* extract_comprehensive_data and fetch_page_with_retry are not run on their own
FunctionsIdle ==
    /\ ex_input = [page_type |-> "", fails |-> "none"]
    /\ ex_data = [g \in {} |-> ""]
    /\ ft_input = << >>
    /\ ft_result = [ok |-> FALSE, gotos |-> 0, retries |-> 0, sleeps |-> 0]

\* process_collected_data is not run on its own
AggregatorIdle ==
    /\ collected_data = [k \in {} |-> << >>]
    /\ set_order = "ascending"
    /\ agg_results = << >>

\* The crawl on its own: run_crawl_with_fallback is not in play.
Init ==
    /\ CrawlInit
    /\ fb_input = NoFallbackInput
    /\ fb_pc = "idle"
    /\ fb_calls = NoCalls
    /\ fb_result = NoDict
    /\ AggregatorIdle
    /\ FunctionsIdle

\* ------------------------------------------------------------------ fetch
max_retries == 3       \* worker: fetch_page_with_retry(page, url, max_retries=3)

\* fetch_page_with_retry, given the outcome of each page.goto in turn
\* ("ok" | "timeout" | "error"). acc counts the gotos made, the retry_count
\* increments and the backoff sleeps.
RECURSIVE FetchFrom(_, _, _)
FetchFrom(outs, attempt, acc) ==
    IF attempt >= max_retries
    THEN [acc EXCEPT !.ok = FALSE]
    ELSE LET o == outs[acc.gotos + 1]
             tried == [acc EXCEPT !.gotos = @ + 1]
             counted == [tried EXCEPT !.retries = @ + 1]
         IN  CASE o = "ok" -> [tried EXCEPT !.ok = TRUE]
               [] o = "timeout" ->
                    IF attempt < max_retries - 1
                    THEN FetchFrom(outs, attempt + 1, [counted EXCEPT !.sleeps = @ + 1])
                    ELSE \* final attempt: one more goto, wait_until='domcontentloaded'
                         [counted EXCEPT !.gotos = @ + 1,
                                         !.ok = (outs[counted.gotos + 1] = "ok")]
               [] OTHER ->
                    IF attempt < max_retries - 1
                    THEN FetchFrom(outs, attempt + 1, [counted EXCEPT !.sleeps = @ + 1])
                    ELSE [counted EXCEPT !.ok = FALSE]

fetch_page_with_retry(outs) ==
    FetchFrom(outs, 0, [ok |-> FALSE, gotos |-> 0, retries |-> 0, sleeps |-> 0])

\* The goto outcomes a page of the crawl may show: it loads at once, it times
\* out for good, or it fails for good with another error.
LoadPatterns ==
    { << "ok", "ok", "ok", "ok" >>,
      << "timeout", "timeout", "timeout", "timeout" >>,
      << "error", "error", "error", "error" >> }

\* ------------------------------------------------------------------ bot detection
\* Faulty variant of handle_bot_detection: the CAPTCHA markers are tested
\* before the challenge markers.
handle_bot_detection_captcha_first(m) ==
    IF m.throws THEN "ok"
    ELSE IF m.captcha THEN "captcha"
    ELSE IF m.cloudflare THEN "cloudflare"
    ELSE IF m.blocked THEN "blocked"
    ELSE "ok"

\* handle_bot_detection: the markers found on the loaded page, tested in the
\* order of the code; an exception inside the detection yields 'ok'.
handle_bot_detection(m) ==
    IF m.throws THEN "ok"
    ELSE IF m.cloudflare THEN "cloudflare"
    ELSE IF m.captcha THEN "captcha"
    ELSE IF m.blocked THEN "blocked"
    ELSE "ok"

\* The asyncio.sleep(5) calls of one run of handle_bot_detection: one, on the
\* first challenge selector that is found, and then it returns.
grace_sleeps(m) == IF ~m.throws /\ m.cloudflare THEN 1 ELSE 0

Markers ==
    [cloudflare : BOOLEAN, captcha : BOOLEAN, blocked : BOOLEAN, throws : {FALSE}]
    \cup { [cloudflare |-> FALSE, captcha |-> TRUE, blocked |-> FALSE, throws |-> TRUE] }

\* ------------------------------------------------------------------ extraction
\* extract_comprehensive_data: data starts with 'colors': [] and 'links': [];
\* the steps run in one try block, so a script that throws leaves every
\* later field at its default. "early" throws before step 13 (colors),
\* "late" after it and before the links are stored, "full" not at all.
ExtractOutcomes == {"full", "early", "late"}

extract_comprehensive_data(url, outcome) ==
    [url |-> url,
     colors |-> IF outcome = "early" THEN "list" ELSE "dict",
     links |-> IF outcome = "full" THEN SiteLinks(url) ELSE << >>]

\* ------------------------------------------------------------------ worker
Bump(field) == [metrics EXCEPT ![field] = @ + 1]

\* Writes to the named shared state made inside 'async with self.results_lock'
Locked(fields) == { [field |-> f, locked |-> TRUE] : f \in fields }

\* Writes to the named shared state made with the lock not held
Unlocked(fields) == { [field |-> f, locked |-> FALSE] : f \in fields }

Record(f, u, v) == [x \in DOMAIN f \cup {u} |-> IF x = u THEN v ELSE f[x]]

Count(f, u) == IF u \in DOMAIN f THEN f[u] ELSE 0

\* The worker tasks exist and are scheduled: gather is pending, or wait_for
\* cancelled it and waits for the workers that are still running to end.
Active == phase \in {"running", "cancelling"}

\* asyncio.wait_for(self.pending_urls.get(), timeout=2.0) returns a task
Pop(w) ==
    /\ Active
    /\ pc[w] = "loop"
    /\ ~crawl_complete
    /\ pending_urls # << >>
    /\ item' = [item EXCEPT ![w] = Head(pending_urls)]
    /\ pending_urls' = Tail(pending_urls)
    /\ pc' = [pc EXCEPT ![w] = "mark"]
    /\ UNCHANGED << outside, writes, botvars, config, visited_urls, pages, metrics, crawl_complete, page_data,
                    phase, timed_out, result, fetch_count, fate >>

\* The get timed out: drain when the frontier is empty and a page was visited,
\* else poll again.
PopTimeout(w) ==
    /\ Active
    /\ pc[w] = "loop"
    /\ ~crawl_complete
    /\ pending_urls = << >>
    /\ pc' = [pc EXCEPT ![w] = IF visited_urls # {} THEN "done" ELSE "loop"]
    /\ UNCHANGED << outside, writes, botvars, config, pending_urls, visited_urls, pages, metrics, crawl_complete,
                    item, page_data, phase, timed_out, result, fetch_count, fate >>

\* while not self.crawl_complete
LoopExit(w) ==
    /\ Active
    /\ pc[w] = "loop"
    /\ crawl_complete
    /\ pc' = [pc EXCEPT ![w] = "done"]
    /\ UNCHANGED << outside, writes, botvars, config, pending_urls, visited_urls, pages, metrics, crawl_complete,
                    item, page_data, phase, timed_out, result, fetch_count, fate >>

\* 'continue', or the end of an iteration: back to the head of the loop; the
\* locals of the iteration (item, url, depth, page, page_data) are dead.
Continue(w) ==
    /\ pc' = [pc EXCEPT ![w] = "loop"]
    /\ item' = [item EXCEPT ![w] = NoItem]
    /\ page_data' = [page_data EXCEPT ![w] = NoData]

\* 'break', or the loop condition fails: the worker task ends
Finish(w) ==
    /\ pc' = [pc EXCEPT ![w] = "done"]
    /\ item' = [item EXCEPT ![w] = NoItem]
    /\ page_data' = [page_data EXCEPT ![w] = NoData]

\* Faulty variant of AlreadyVisited: the membership test is dropped.
AlreadyVisitedDropped(url) == FALSE

\* url in self.visited_urls
AlreadyVisited(url) == url \in visited_urls

\* Faulty variant of BudgetExhausted: '>' instead of '>='.
BudgetExhaustedOffByOne == Cardinality(visited_urls) > max_pages

\* Faulty variant of BudgetExhausted: the budget counts as used up one page early.
BudgetExhaustedOneEarly == Cardinality(visited_urls) + 1 >= max_pages

\* len(self.visited_urls) >= self.max_pages
BudgetExhausted == Cardinality(visited_urls) >= max_pages

\* urlparse(url).netloc != self.domain
OtherDomain(url) == Netloc(url) # domain

\* The check-and-insert under results_lock, then the domain check.
Mark(w) ==
    /\ Active
    /\ pc[w] = "mark"
    /\ LET url == item[w].url
       IN  IF AlreadyVisited(url) \/ BudgetExhausted
           THEN /\ Continue(w)
                /\ UNCHANGED << visited_urls, writes >>
           ELSE /\ visited_urls' = visited_urls \cup {url}
                /\ writes' = writes \cup Locked({"visited_urls"})
                /\ IF OtherDomain(url)
                   THEN Continue(w)
                   ELSE pc' = [pc EXCEPT ![w] = "fetch"] /\ UNCHANGED << item, page_data >>
    /\ UNCHANGED << outside, botvars, config, pending_urls, pages, metrics, crawl_complete,
                    phase, timed_out, result, fetch_count, fate >>

\* new_page, fetch_page_with_retry and the 'not fetch_success' branch. shown is
\* what the loaded page holds for the bot detection.
FetchInto(w, shown) ==
    /\ Active
    /\ pc[w] = "fetch"
    /\ \E outs \in LoadPatterns :
          LET r == fetch_page_with_retry(outs)
              m == [metrics EXCEPT !.retry_count = @ + r.retries]
          IN  /\ IF r.ok
                 THEN /\ metrics' = m
                      /\ pc' = [pc EXCEPT ![w] = "detect"]
                      /\ page' = [page EXCEPT ![w] = shown]
                      /\ UNCHANGED << fate, item, page_data >>
                 ELSE /\ metrics' = [m EXCEPT !.pages_failed = @ + 1]
                      /\ Continue(w)
                      /\ fate' = Record(fate, item[w].url, "fetch_failed")
                      /\ UNCHANGED page
              /\ writes' = writes \cup Unlocked((IF r.retries > 0 THEN {"retry_count"} ELSE {})
                                                 \cup (IF r.ok THEN {} ELSE {"pages_failed"}))
    /\ fetch_count' = Record(fetch_count, item[w].url, Count(fetch_count, item[w].url) + 1)
    /\ UNCHANGED << outside, detection, config, pending_urls, visited_urls, pages, crawl_complete,
                    phase, timed_out, result >>

\* The load of a page whose content is left open until it is inspected
Fetch(w) == FetchInto(w, NoPage)

\* The load of a page whose content is settled when it arrives
FetchShown(w) == \E m \in Markers : FetchInto(w, m)

\* Faulty variant of SkipCounts: the page is not counted as failed.
SkipCountsNoFailure(counter) == [metrics EXCEPT ![counter] = @ + 1]

\* The counters of a page reported 'captcha' or 'blocked': handle_bot_detection
\* bumps its own counter and the worker's branch bumps pages_failed.
SkipCounts(counter) == [metrics EXCEPT ![counter] = @ + 1, !.pages_failed = @ + 1]

\* handle_bot_detection on a page holding the markers m, its branches, then
\* the waits, the scroll and extract_comprehensive_data. The worker does not
\* look at bot_status again after the branches; recorded says whether the
\* history of the run is kept until the merge.
DetectOn(w, m, recorded) ==
    /\ Active
    /\ pc[w] = "detect"
    /\ \E outcome \in ExtractOutcomes :
          LET bot_status == handle_bot_detection(m)
          IN  CASE bot_status = "captcha" ->
                     /\ metrics' = SkipCounts("captcha_count")
                     /\ writes' = writes \cup Unlocked({"captcha_count", "pages_failed"})
                     /\ Continue(w)
                     /\ fate' = Record(fate, item[w].url, "captcha")
                     /\ UNCHANGED detection
                [] bot_status = "blocked" ->
                     /\ metrics' = SkipCounts("blocked_count")
                     /\ writes' = writes \cup Unlocked({"blocked_count", "pages_failed"})
                     /\ Continue(w)
                     /\ fate' = Record(fate, item[w].url, "blocked")
                     /\ UNCHANGED detection
                [] OTHER ->
                     /\ detection' = [detection EXCEPT
                                        ![w] = IF recorded
                                               THEN [status |-> bot_status,
                                                     sleeps |-> grace_sleeps(m)]
                                               ELSE NoDetection]
                     /\ page_data' = [page_data EXCEPT
                                        ![w] = extract_comprehensive_data(item[w].url, outcome)]
                     /\ pc' = [pc EXCEPT ![w] = "merge"]
                     /\ UNCHANGED << metrics, fate, item, writes >>
    /\ page' = [page EXCEPT ![w] = NoPage]
    /\ UNCHANGED << outside, config, pending_urls, visited_urls, pages, crawl_complete,
                    phase, timed_out, result, fetch_count >>

\* The detection on a page whose content was left open by the load
Detect(w) == \E m \in Markers : DetectOn(w, m, FALSE)

\* The detection on the page as it arrived, its run recorded
DetectShown(w) == DetectOn(w, page[w], TRUE)

\* Faulty variant of Enqueueable: the netloc test is dropped.
EnqueueableAnyHost(link_url) == link_url \notin visited_urls

\* link_url not in self.visited_urls and urlparse(link_url).netloc == self.domain
Enqueueable(link_url) == link_url \notin visited_urls /\ Netloc(link_url) = domain

\* The tasks the 'Add child links to queue' loop puts, in order. visited_urls
\* does not change during the loop.
RECURSIVE ChildTasks(_, _)
ChildTasks(links, depth) ==
    IF links = << >> THEN << >>
    ELSE LET link_url == StripFragmentAndQuery(Head(links).url)
             rest == ChildTasks(Tail(links), depth)
         IN  IF Enqueueable(link_url)
             THEN << [url |-> link_url, depth |-> depth + 1,
                      priority |-> get_link_priority(link_url)] >> \o rest
             ELSE rest

\* Faulty variant of MayDescend: '<=' instead of '<'.
MayDescendOffByOne(depth) == depth <= max_depth

\* Faulty variant of MayDescend: no page's links are ever followed.
MayDescendNever(depth) == FALSE

\* depth < self.max_depth
MayDescend(depth) == depth < max_depth

\* The merge under results_lock, the progress callback and the link loop.
\* page_data.get('colors', {}).get('other', []) raises on the default list,
\* after the record was appended; any exception skips the link loop and is
\* counted by the handler of the page.
Merge(w) ==
    /\ Active
    /\ pc[w] = "merge"
    /\ LET d == page_data[w]
           raised == d.colors = "list" \/ progress_callback = "raises"
           m == Bump("pages_crawled")
       IN  /\ pages' = Append(pages, [url |-> d.url, depth |-> item[w].depth, links |-> d.links])
           /\ IF raised
              THEN /\ metrics' = [m EXCEPT !.pages_failed = @ + 1]
                   /\ fate' = Record(fate, d.url, "raised")
                   /\ writes' = writes \cup Locked({"pages_crawled", "collected_data"})
                                       \cup Unlocked({"pages_failed"})
                   /\ UNCHANGED pending_urls
              ELSE /\ metrics' = m
                   /\ fate' = Record(fate, d.url, "ok")
                   /\ writes' = writes \cup Locked({"pages_crawled", "collected_data"})
                   /\ pending_urls' =
                        IF MayDescend(item[w].depth)
                        THEN pending_urls \o ChildTasks(d.links, item[w].depth)
                        ELSE pending_urls
    /\ pc' = [pc EXCEPT ![w] = "recheck"]
    /\ detection' = [detection EXCEPT ![w] = NoDetection]
    /\ UNCHANGED << outside, page, config, visited_urls, crawl_complete, item, page_data,
                    phase, timed_out, result, fetch_count >>

\* task_done and the budget recheck under results_lock
Recheck(w) ==
    /\ Active
    /\ pc[w] = "recheck"
    /\ IF BudgetExhausted
       THEN /\ crawl_complete' = TRUE
            /\ Finish(w)
       ELSE /\ Continue(w)
            /\ UNCHANGED crawl_complete
    /\ UNCHANGED << outside, writes, botvars, config, pending_urls, visited_urls, pages, metrics,
                    phase, timed_out, result, fetch_count, fate >>

WorkerStep(w) ==
    \/ Pop(w) \/ PopTimeout(w) \/ LoopExit(w) \/ Mark(w)
    \/ Fetch(w) \/ Detect(w) \/ Merge(w) \/ Recheck(w)

\* ------------------------------------------------------------------ crawl
\* async_playwright() and chromium.launch: the workers start, or crawl() raises
Launch ==
    /\ phase = "init"
    /\ \E launched \in BOOLEAN : phase' = IF launched THEN "running" ELSE "raised"
    /\ UNCHANGED << outside, writes, botvars, config, pending_urls, visited_urls, pages, metrics, crawl_complete,
                    pc, item, page_data, timed_out, result, fetch_count, fate >>

\* process_collected_data: the fields of the result that depend on the crawl
process_collected_data ==
    [success |-> TRUE,
     pages_crawled |-> Cardinality(visited_urls),
     metrics |-> metrics]

\* The workers suspended inside fetch_page_with_retry may be waiting in the
\* final page.goto(wait_until='domcontentloaded'), which sits under a bare
\* 'except:'. That handler also catches the CancelledError of a cancellation
\* (every other handler on the way is 'except Exception', which does not).
MaySwallow == { w \in Workers : pc[w] = "fetch" }

\* asyncio.wait_for(gather(*workers), timeout=300) expires: gather cancels
\* every worker and wait_for waits until all of them have ended. A worker
\* cancelled anywhere but in the final goto ends with CancelledError; a worker
\* cancelled in the final goto has the cancellation swallowed, after the
\* goto calls and retry_count increments that led there. When no worker is
\* left, the TimeoutError handler sets crawl_complete and crawl() returns
\* what was collected.
Timeout ==
    /\ phase = "running"
    /\ \E w \in Workers : pc[w] # "done"
    /\ timed_out' = TRUE
    /\ \E S \in SUBSET MaySwallow :
          /\ pc' = [w \in Workers |-> IF w \in S THEN "swallowed" ELSE "done"]
          /\ item' = [w \in Workers |-> IF w \in S THEN item[w] ELSE NoItem]
          /\ metrics' = [metrics EXCEPT !.retry_count = @ + max_retries * Cardinality(S)]
          /\ writes' = writes \cup Unlocked(IF S = {} THEN {} ELSE {"retry_count"})
          /\ fetch_count' =
                [u \in DOMAIN fetch_count \cup { item[w].url : w \in S } |->
                    Count(fetch_count, u) + Cardinality({ w \in S : item[w].url = u })]
          /\ IF S = {}
             THEN /\ crawl_complete' = TRUE
                  /\ result' = process_collected_data
                  /\ phase' = "returned"
             ELSE /\ phase' = "cancelling"
                  /\ UNCHANGED << crawl_complete, result >>
    /\ page_data' = [w \in Workers |-> NoData]
    /\ page' = [w \in Workers |-> NoPage]
    /\ detection' = [w \in Workers |-> NoDetection]
    /\ UNCHANGED << outside, config, pending_urls, visited_urls, pages, fate >>

\* The bare 'except:' of the final goto caught the cancellation:
\* fetch_page_with_retry returns False, and the worker goes on with the
\* 'not fetch_success' branch and the next iteration of its loop.
Swallowed(w) ==
    /\ phase = "cancelling"
    /\ pc[w] = "swallowed"
    /\ metrics' = Bump("pages_failed")
    /\ writes' = writes \cup Unlocked({"pages_failed"})
    /\ fate' = Record(fate, item[w].url, "fetch_failed")
    /\ Continue(w)
    /\ UNCHANGED << outside, botvars, config, pending_urls, visited_urls, pages, crawl_complete,
                    phase, timed_out, result, fetch_count >>

\* gather is done: after a normal end crawl() returns process_collected_data();
\* after the timeout the TimeoutError handler sets crawl_complete first.
Return ==
    /\ Active
    /\ \A w \in Workers : pc[w] = "done"
    /\ crawl_complete' = (crawl_complete \/ phase = "cancelling")
    /\ result' = process_collected_data
    /\ phase' = "returned"
    /\ UNCHANGED << outside, writes, botvars, config, pending_urls, visited_urls, pages, metrics,
                    pc, item, page_data, timed_out, fetch_count, fate >>

Next ==
    \/ Launch
    \/ \E w \in Workers : WorkerStep(w)
    \/ Timeout
    \/ \E w \in Workers : Swallowed(w)
    \/ Return

Spec == Init /\ [][Next]_vars

\* The crawl without its wall-clock timeout. The event loop runs every task
\* that is ready, so each worker that can take a step eventually takes one.
LiveNext ==
    \/ Launch
    \/ \E w \in Workers : WorkerStep(w)
    \/ Return

LiveSpec ==
    /\ Init
    /\ [][LiveNext]_vars
    /\ WF_vars(Launch)
    /\ \A w \in Workers : WF_vars(WorkerStep(w))
    /\ WF_vars(Return)

\* The crawl, without a progress callback, of pages whose content is settled
\* when they arrive, so that what the bot detection reports can be held
\* against what the page shows.
ShownWorkerStep(w) ==
    \/ Pop(w) \/ PopTimeout(w) \/ LoopExit(w) \/ Mark(w)
    \/ FetchShown(w) \/ DetectShown(w) \/ Merge(w) \/ Recheck(w)

DetectNext ==
    \/ Launch
    \/ \E w \in Workers : ShownWorkerStep(w)
    \/ Timeout
    \/ \E w \in Workers : Swallowed(w)
    \/ Return

\* crawl() is called without a progress callback
DetectInit == Init /\ progress_callback = "none"

DetectSpec == DetectInit /\ [][DetectNext]_vars

\* ------------------------------------------------------------------ result shapes
\* The keys of the dictionary process_collected_data returns, with the kind of
\* value under each.
CrawlResultKind ==
    [k \in {"text", "nav_text", "reviews_text", "about_us_content",
            "legal_footer_content"} |-> "str"]
    @@ [k \in {"hero_sections", "faqs", "product_bullets", "pricing_data", "disclaimers",
               "banners_carousels", "social_embeds", "team_members", "case_studies",
               "events_data", "general_forms", "colors", "images", "ads"} |-> "list"]
    @@ [k \in {"contact_data", "press_media", "careers_data", "structured_data", "videos",
               "ctas", "visual_elements", "logos", "metrics"} |-> "dict"]
    @@ [k \in {"char_count", "pages_crawled"} |-> "int"]
    @@ [k \in {"success"} |-> "bool"]

CrawlResultKeys == DOMAIN CrawlResultKind

\* The keys of the dictionary run_crawl_with_fallback builds from the HTTP
\* scraper when products were found. brand_intel.get(key, default) yields a
\* value of the kind of the default whether or not enhanced_scrape succeeded.
FallbackResultKind ==
    [k \in {"url", "text_content", "reviews_text"} |-> "str"]
    @@ [k \in {"products", "images", "colors", "fonts", "nav_structure", "cta_buttons",
               "ctas", "general_forms", "visual_elements", "ads"} |-> "list"]
    @@ [k \in {"logos", "social_links", "contact_info", "metadata"} |-> "dict"]
    @@ [k \in {"char_count", "pages_crawled"} |-> "int"]
    @@ [k \in {"success"} |-> "bool"]
    @@ [k \in {"error"} |-> "none"]

FallbackResultKeys == DOMAIN FallbackResultKind

\* {'success': False, 'error': ..., 'url': website_url}
FailureKind ==
    [k \in {"error", "url"} |-> "str"] @@ [k \in {"success"} |-> "bool"]

\* The dictionary crawl() hands to run_comprehensive_crawl and on to its caller
BrowserResult(success) ==
    [success |-> success, keys |-> CrawlResultKeys, kind |-> CrawlResultKind, products |-> 0]

FallbackSuccess(n) ==
    [success |-> TRUE, keys |-> FallbackResultKeys, kind |-> FallbackResultKind,
     products |-> n]

FallbackFailure ==
    [success |-> FALSE, keys |-> DOMAIN FailureKind, kind |-> FailureKind, products |-> 0]

\* ------------------------------------------------------------------ run_crawl_with_fallback
MaxProducts == 2       \* fetch_products_from_url finds 0..MaxProducts products

\* What run_comprehensive_crawl does when called: it raises (the message names
\* playwright or the browser, or not), or it returns a dictionary whose
\* 'success' is truthy or falsy.
BrowserOutcomes == {"raises_playwright", "raises_other", "truthy", "falsy"}

\* enhanced_scrape returns the brand intelligence, or {'success': False,
\* 'error': ...} without its keys, or raises (its import fails).
BrandIntelOutcomes == {"full", "failed", "raises"}

\* fetch_products_from_url returns (products, None), (None, error) or raises.
ProductOutcomes ==
    { [kind |-> "raises", n |-> 0], [kind |-> "none", n |-> 0] }
    \cup { [kind |-> "list", n |-> n] : n \in 0..MaxProducts }

\* The crawler is behind run_comprehensive_crawl: its state is not in play
CrawlerIdle ==
    /\ base_url = NoURL
    /\ domain = ""
    /\ max_depth = 1
    /\ max_pages = 1
    /\ progress_callback = "none"
    /\ pending_urls = << >>
    /\ visited_urls = {}
    /\ pages = << >>
    /\ metrics = NoResult.metrics
    /\ crawl_complete = FALSE
    /\ pc = [w \in Workers |-> "done"]
    /\ item = [w \in Workers |-> NoItem]
    /\ page_data = [w \in Workers |-> NoData]
    /\ page = [w \in Workers |-> NoPage]
    /\ detection = [w \in Workers |-> NoDetection]
    /\ phase = "idle"
    /\ timed_out = FALSE
    /\ result = NoResult
    /\ fetch_count = [u \in {} |-> 0]
    /\ fate = [u \in {} |-> ""]
    /\ writes = {}

FallbackInit ==
    /\ fb_input \in [browser : BrowserOutcomes, progress_bar : BOOLEAN,
                     brand_intel : BrandIntelOutcomes, products : ProductOutcomes]
    /\ fb_pc = "start"
    /\ fb_calls = NoCalls
    /\ fb_result = NoDict
    /\ CrawlerIdle
    /\ AggregatorIdle
    /\ FunctionsIdle

\* result.get('success')
Truthy(outcome) == outcome = "truthy"

\* The first try block: the browser crawl is returned when its success is
\* truthy; a falsy success raises into the same handler as a crawler exception.
TryBrowser ==
    /\ fb_pc = "start"
    /\ fb_calls' = [fb_calls EXCEPT !.run_comprehensive_crawl = @ + 1]
    /\ IF fb_input.browser \in {"truthy", "falsy"} /\ Truthy(fb_input.browser)
       THEN /\ fb_result' = BrowserResult(TRUE)
            /\ fb_pc' = "returned"
       ELSE /\ fb_pc' = "fallback"
            /\ UNCHANGED fb_result
    /\ UNCHANGED << fb_input, crawlvars, aggvars, extractvars, fetchvars >>

\* Faulty variant of HasProducts: the length test is dropped.
HasProductsNotNone(products) == products.kind = "list"

\* products and len(products) > 0
HasProducts(products) == products.kind = "list" /\ products.n > 0

\* The handler: enhanced_scrape, then fetch_products_from_url, then the merged
\* dictionary; any exception in between yields the failure dictionary.
Fallback ==
    /\ fb_pc = "fallback"
    /\ LET scraped == fb_input.brand_intel # "raises"
           fetched == scraped /\ fb_input.products.kind # "raises"
       IN  /\ fb_calls' = [fb_calls EXCEPT
                             !.enhanced_scrape = @ + 1,
                             !.fetch_products_from_url = @ + (IF scraped THEN 1 ELSE 0)]
           /\ fb_result' =
                IF fetched /\ HasProducts(fb_input.products)
                THEN FallbackSuccess(fb_input.products.n)
                ELSE FallbackFailure
    /\ fb_pc' = "returned"
    /\ UNCHANGED << fb_input, crawlvars, aggvars, extractvars, fetchvars >>

FallbackNext == TryBrowser \/ Fallback

FallbackSpec == FallbackInit /\ [][FallbackNext]_vars

\* ------------------------------------------------------------------ process_collected_data
\* Faulty variant of Take: xs[:n + 1]
TakeOneMore(xs, n) == IF Len(xs) <= n + 1 THEN xs ELSE SubSeq(xs, 1, n + 1)

\* xs[:n]
Take(xs, n) == IF Len(xs) <= n THEN xs ELSE SubSeq(xs, 1, n)

\* The loops of the form
\*     for x in xs: k = key(x); if [k and] k not in seen: seen.add(k); out.append(x)
\* given the keys of xs in order: the indices of the entries kept. seen holds
\* the keys of the entries kept so far, so a key is in seen exactly when an
\* earlier entry has it; with skip_empty the test is 'if k and k not in seen'
\* and an entry with an empty key is never kept.
KeptFrom(keys, skip_empty) ==
    LET Kept(i) == /\ ~(skip_empty /\ keys[i] = "")
                   /\ \A k \in 1..(i - 1) : keys[k] # keys[i]
    IN  SelectSeq([i \in 1..Len(keys) |-> i], Kept)

\* The words of the logo test found in (classes + alt).lower()
LogoWords == {"dark", "white", "inverse", "light"}

WordsIn(text) ==
    CASE text = "dark-logo" -> {"dark"}
      [] text = "light-logo" -> {"light"}
      [] OTHER -> {}

\* 'dark' if any(x in (classes + alt).lower() for x in [dark, white, inverse,
\* light]) else 'light'
logo_type(logo) == IF WordsIn(logo.classes) \cap LogoWords # {} THEN "dark" ELSE "light"

\* Faulty variant of ComesBefore: among equal prominences the later collected
\* logo goes first.
ComesBeforeUnstable(logos, k, i) ==
    \/ logos[k].prominence > logos[i].prominence
    \/ logos[k].prominence = logos[i].prominence /\ k > i

\* sorted(..., key=prominence, reverse=True) puts logos[k] before logos[i]:
\* it is more prominent, or as prominent and collected earlier (the sort is
\* stable, also with reverse=True).
ComesBefore(logos, k, i) ==
    \/ logos[k].prominence > logos[i].prominence
    \/ logos[k].prominence = logos[i].prominence /\ k < i

\* The place of logos[i] in the sorted list
Rank(logos, i) == 1 + Cardinality({ k \in 1..Len(logos) : ComesBefore(logos, k, i) })

SortedByProminence(logos) ==
    [p \in 1..Len(logos) |-> logos[CHOOSE i \in 1..Len(logos) : Rank(logos, i) = p]]

\* The 'Deduplicate logos' loop over the sorted candidates: the first logo of
\* each URL is kept and typed.
unique_logos(cd) ==
    LET sorted == SortedByProminence(cd.logos)
        kept == KeptFrom([i \in 1..Len(sorted) |-> sorted[i].url], FALSE)
    IN  [j \in 1..Len(kept) |->
            [url |-> sorted[kept[j]].url, prominence |-> sorted[kept[j]].prominence,
             classes |-> sorted[kept[j]].classes, type |-> logo_type(sorted[kept[j]])]]

\* next((l['url'] for l in unique_logos if l['type'] == t), None)
FirstOfType(logos, t) ==
    LET OfType(l) == l.type = t
        found == SelectSeq(logos, OfType)
    IN  IF found = << >> THEN "None" ELSE Head(found).url

LogoCap == 20          \* 'all': unique_logos[:20]

result_logos(cd) ==
    [light |-> FirstOfType(unique_logos(cd), "light"),
     dark |-> FirstOfType(unique_logos(cd), "dark"),
     all |-> Take(unique_logos(cd), LogoCap)]

Pick(xs, kept) == [j \in 1..Len(kept) |-> xs[kept[j]]]

\* 'Deduplicate FAQs': q = faq.get('question', ''); if q and q not in seen_faq_q
unique_faqs(cd) ==
    Pick(cd.faqs, KeptFrom([i \in 1..Len(cd.faqs) |-> cd.faqs[i].question], TRUE))

\* 'Deduplicate team members': name = member.get('name', '')
unique_team(cd) ==
    Pick(cd.team_members,
         KeptFrom([i \in 1..Len(cd.team_members) |-> cd.team_members[i].name], TRUE))

\* 'Deduplicate events': title = event.get('title', '')
unique_events(cd) ==
    Pick(cd.events_data,
         KeptFrom([i \in 1..Len(cd.events_data) |-> cd.events_data[i].title], TRUE))

\* 'Deduplicate images': if img['url'] not in seen_images
unique_images(cd) ==
    Pick(cd.images, KeptFrom([i \in 1..Len(cd.images) |-> cd.images[i].url], FALSE))

\* list(a_set): the members in the iteration order of this process. Members
\* are numbered; the order is by number, one way or the other.
ListOfSet(S, order) ==
    [j \in 1..Cardinality(S) |->
        CHOOSE x \in S :
            Cardinality({ y \in S : IF order = "ascending" THEN y < x ELSE y > x }) = j - 1]

\* set(a_list)
SetOf(xs) == { xs[i] : i \in 1..Len(xs) }

BulletCap == 50        \* list(set(product_bullets))[:50]
DisclaimerCap == 20    \* list(set(disclaimers))[:20]
ColorCap == 10         \* list(colors)[:10]

unique_bullets(cd, order) == Take(ListOfSet(SetOf(cd.product_bullets), order), BulletCap)

unique_disclaimers(cd, order) == Take(ListOfSet(SetOf(cd.disclaimers), order), DisclaimerCap)

\* color_types[min(i, 4)], i counted from 0
color_types == << "primary", "secondary", "accent", "functional", "supporting" >>

color_list(cd, order) ==
    LET colors == Take(ListOfSet(cd.colors, order), ColorCap)
    IN  [i \in 1..Len(colors) |->
            [hex |-> colors[i], type |-> color_types[IF i - 1 < 4 THEN i ELSE 5]]]

\* The words that make an image an ad
AdWords == {"banner", "promo", "campaign", "offer"}

\* [img for img in unique_images if any(x in classes.lower() for x in AdWords)]
IsAd(img) == img.classes \in AdWords

AdsOf(images) == SelectSeq(images, IsAd)

\* Faulty variant of MergeFirst: a later page overwrites the key.
RECURSIVE MergeLast(_, _, _)
MergeLast(sds, which, merged) ==
    IF sds = << >> THEN merged
    ELSE LET d == Head(sds)[which]
         IN  MergeLast(Tail(sds), which,
                       [k \in DOMAIN merged \cup DOMAIN d |->
                           IF k \in DOMAIN d THEN d[k] ELSE merged[k]])

\* 'Merge structured data' for one of openGraph, twitter, metaTags, schemaOrg:
\* for key, value in sd.get(which, {}).items(): if key not in merged:
\* merged[key] = value
RECURSIVE MergeFirst(_, _, _)
MergeFirst(sds, which, merged) ==
    IF sds = << >> THEN merged
    ELSE LET d == Head(sds)[which]
         IN  MergeFirst(Tail(sds), which,
                        [k \in DOMAIN merged \cup DOMAIN d |->
                            IF k \in DOMAIN merged THEN merged[k] ELSE d[k]])

StructuredKinds == {"openGraph", "twitter", "metaTags", "schemaOrg"}

NoEntries == [k \in {} |-> ""]

merged_structured(cd) ==
    [which \in StructuredKinds |-> MergeFirst(cd.structured_data, which, NoEntries)]

HeroCap == 10          \* hero_sections[:10]
FaqCap == 30           \* unique_faqs[:30]
PricingCap == 30       \* pricing_data[:30]
BannerCap == 15        \* banners_carousels[:15]
TeamCap == 20          \* unique_team[:20]
CaseStudyCap == 15     \* case_studies[:15]
EventCap == 15         \* unique_events[:15]
FormCap == 15          \* general_forms[:15]
ImageCap == 100        \* unique_images[:100]
AdCap == 20            \* [...][:20]

\* The dictionary process_collected_data returns, for the fields that are
\* deduplicated, merged first-wins or capped. It reads self.collected_data and
\* builds new lists and dictionaries; it assigns to nothing in self.
Aggregate(cd, order) ==
    [success |-> TRUE,
     hero_sections |-> Take(cd.hero_sections, HeroCap),
     faqs |-> Take(unique_faqs(cd), FaqCap),
     product_bullets |-> unique_bullets(cd, order),
     pricing_data |-> Take(cd.pricing_data, PricingCap),
     disclaimers |-> unique_disclaimers(cd, order),
     banners_carousels |-> Take(cd.banners_carousels, BannerCap),
     team_members |-> Take(unique_team(cd), TeamCap),
     case_studies |-> Take(cd.case_studies, CaseStudyCap),
     events_data |-> Take(unique_events(cd), EventCap),
     structured_data |-> merged_structured(cd),
     general_forms |-> Take(cd.general_forms, FormCap),
     logos |-> result_logos(cd),
     colors |-> color_list(cd, order),
     images |-> Take(unique_images(cd), ImageCap),
     ads |-> Take(AdsOf(unique_images(cd)), AdCap)]

\* self.collected_data after __init__, for the fields Aggregate reads
EmptyCollected ==
    [hero_sections |-> << >>, faqs |-> << >>, product_bullets |-> << >>,
     pricing_data |-> << >>, disclaimers |-> << >>, banners_carousels |-> << >>,
     team_members |-> << >>, case_studies |-> << >>, events_data |-> << >>,
     structured_data |-> << >>, general_forms |-> << >>, logos |-> << >>,
     colors |-> {}, images |-> << >>]

MaxLogos == 3          \* logo candidates collected
MaxFaqs == 3           \* FAQs collected
MaxRecords == 2        \* pages that contributed structured data
MaxFill == 101         \* entries collected per field when the fields are filled up

SeqsUpTo(S, n) == UNION { [1..k -> S] : k \in 0..n }

LogoCandidates ==
    [url : {"a.png", "b.png"}, prominence : {10, 50, 80},
     classes : {"", "dark-logo", "light-logo"}]

FaqCandidates == [question : {"", "q1", "q2"}, answer : {"a1", "a2"}]

\* Dictionaries over two keys and two values, the empty one included
SmallDicts == UNION { [K -> {"v1", "v2"}] : K \in SUBSET {"k1", "k2"} }

\* page_data['structured_data'] of a page: one of its four dictionaries filled
StructuredCandidates ==
    { [w \in StructuredKinds |-> IF w = which THEN d ELSE NoEntries] :
        which \in StructuredKinds, d \in SmallDicts }

GenKey(i, distinct) == IF distinct THEN ToString(i) ELSE "same"

GenId(i, distinct) == IF distinct THEN i ELSE 1

\* Entries beyond the cap of a field by more than two add nothing
UpTo(n, cap) == IF n <= cap + 2 THEN n ELSE cap + 2

\* Every field holds n entries, or two more than its cap if that is less,
\* with distinct keys or with one key
Filled(n, distinct) ==
    [hero_sections |-> [i \in 1..UpTo(n, HeroCap) |-> i],
     faqs |-> [i \in 1..UpTo(n, FaqCap) |->
                  [question |-> GenKey(i, distinct), answer |-> "a1"]],
     product_bullets |-> [i \in 1..UpTo(n, BulletCap) |-> GenId(i, distinct)],
     pricing_data |-> [i \in 1..UpTo(n, PricingCap) |-> i],
     disclaimers |-> [i \in 1..UpTo(n, DisclaimerCap) |-> GenId(i, distinct)],
     banners_carousels |-> [i \in 1..UpTo(n, BannerCap) |-> i],
     team_members |-> [i \in 1..UpTo(n, TeamCap) |-> [name |-> GenKey(i, distinct)]],
     case_studies |-> [i \in 1..UpTo(n, CaseStudyCap) |-> i],
     events_data |-> [i \in 1..UpTo(n, EventCap) |-> [title |-> GenKey(i, distinct)]],
     structured_data |-> << >>,
     general_forms |-> [i \in 1..UpTo(n, FormCap) |-> i],
     logos |-> [i \in 1..UpTo(n, LogoCap) |->
                  [url |-> GenKey(i, distinct), prominence |-> 10 * (i % 3), classes |-> ""]],
     colors |-> { GenId(i, distinct) : i \in 1..UpTo(n, ColorCap) },
     images |-> [i \in 1..UpTo(n, ImageCap) |->
                  [url |-> GenKey(i, distinct), classes |-> "banner"]]]

\* process_collected_data run on its own: the collected data is any of the
\* bounded inputs. The fields are aggregated independently of each other, so
\* the inputs vary one family of fields at a time.
AggregateInit ==
    /\ \/ /\ \E logos \in SeqsUpTo(LogoCandidates, MaxLogos) :
               collected_data = [EmptyCollected EXCEPT !.logos = logos]
          /\ set_order = "ascending"
       \/ /\ \E faqs \in SeqsUpTo(FaqCandidates, MaxFaqs) :
               collected_data = [EmptyCollected EXCEPT !.faqs = faqs]
          /\ set_order = "ascending"
       \/ /\ \E sds \in SeqsUpTo(StructuredCandidates, MaxRecords) :
               collected_data = [EmptyCollected EXCEPT !.structured_data = sds]
          /\ set_order = "ascending"
       \/ /\ \E n \in 0..MaxFill, distinct \in BOOLEAN :
               collected_data = Filled(n, distinct)
          /\ set_order \in {"ascending", "descending"}
    /\ agg_results = << >>
    /\ CrawlerIdle
    /\ fb_input = NoFallbackInput
    /\ fb_pc = "idle"
    /\ fb_calls = NoCalls
    /\ fb_result = NoDict
    /\ FunctionsIdle

\* Faulty variant of CollectedAfter: the logos are sorted in place
\* (self.collected_data['logos'].sort(...)).
CollectedAfterSortInPlace(cd) == [cd EXCEPT !.logos = SortedByProminence(cd.logos)]

\* self.collected_data after process_collected_data: the function assigns to
\* no field of it and calls no mutating method on its lists; sorted(), list(),
\* set(), slices and {**logo, 'type': ...} build new objects.
CollectedAfter(cd) == cd

\* One call of process_collected_data; it may be called again on the same data
RunAggregate ==
    /\ Len(agg_results) < 2
    /\ agg_results' = Append(agg_results, Aggregate(collected_data, set_order))
    /\ collected_data' = CollectedAfter(collected_data)
    /\ UNCHANGED << set_order, crawlvars, fbvars, extractvars, fetchvars >>

AggregateSpec == AggregateInit /\ [][RunAggregate]_vars

\* ------------------------------------------------------------------ extract_comprehensive_data, step by step
\* The signal groups in the order their scripts run inside the one try block
ExtractOrder ==
    << "title", "hero_section", "nav_text", "legal_footer", "faqs", "product_bullets",
       "pricing", "disclaimers", "banners", "social_embeds", "contact_data",
       "team_members", "press_media", "case_studies", "careers_data", "events_data",
       "structured_data", "videos", "ctas", "general_forms", "visual_elements",
       "reviews_text", "text", "logos", "colors", "images", "links" >>

Groups == { ExtractOrder[i] : i \in 1..Len(ExtractOrder) }

\* What _classify_page_type returns
PageTypes ==
    {"legal", "about", "contact", "team", "press", "case-study", "careers", "events",
     "faq", "pricing", "blog", "product", "collection", "reviews", "home", "general"}

\* if data['page_type'] in [...]: the page types a group is extracted on
ExtractedOn(g) ==
    CASE g = "hero_section" -> {"home", "general"}
      [] g = "faqs" -> {"faq", "product", "home"}
      [] g = "product_bullets" -> {"product"}
      [] g = "contact_data" -> {"contact", "general"}
      [] g = "team_members" -> {"team", "about", "general"}
      [] g = "press_media" -> {"press", "blog", "general"}
      [] g = "case_studies" -> {"case-study", "blog", "general"}
      [] g = "careers_data" -> {"careers", "general"}
      [] g = "events_data" -> {"events", "general"}
      [] OTHER -> PageTypes

Place(g) == CHOOSE i \in 1..Len(ExtractOrder) : ExtractOrder[i] = g

\* The script of group 'fails' throws when it runs: the exception leaves the
\* try block, so the groups after it are not extracted.
Aborted(page_type, fails, g) ==
    /\ fails \in Groups
    /\ page_type \in ExtractedOn(fails)
    /\ Place(fails) <= Place(g)

\* The data returned: each group "extracted" from the page or left at the
\* "default" it has in the initial dictionary
ExtractData(page_type, fails) ==
    [g \in Groups |->
        IF page_type \in ExtractedOn(g) /\ ~Aborted(page_type, fails, g)
        THEN "extracted" ELSE "default"]

ExtractInit ==
    /\ ex_input \in [page_type : PageTypes, fails : Groups \cup {"none"}]
    /\ ex_data = [g \in {} |-> ""]
    /\ ft_input = << >>
    /\ ft_result = [ok |-> FALSE, gotos |-> 0, retries |-> 0, sleeps |-> 0]
    /\ CrawlerIdle
    /\ AggregatorIdle
    /\ fb_input = NoFallbackInput
    /\ fb_pc = "idle"
    /\ fb_calls = NoCalls
    /\ fb_result = NoDict

\* One call of extract_comprehensive_data on a loaded page
Extract ==
    /\ DOMAIN ex_data = {}
    /\ ex_data' = ExtractData(ex_input.page_type, ex_input.fails)
    /\ UNCHANGED << ex_input, fetchvars, crawlvars, fbvars, aggvars >>

ExtractSpec == ExtractInit /\ [][Extract]_vars

\* ------------------------------------------------------------------ fetch_page_with_retry on its own
GotoOutcomes == {"ok", "timeout", "error"}

FetchInit ==
    /\ ft_input \in [1..(max_retries + 1) -> GotoOutcomes]
    /\ ft_result = [ok |-> FALSE, gotos |-> 0, retries |-> 0, sleeps |-> 0]
    /\ ex_input = [page_type |-> "", fails |-> "none"]
    /\ ex_data = [g \in {} |-> ""]
    /\ CrawlerIdle
    /\ AggregatorIdle
    /\ fb_input = NoFallbackInput
    /\ fb_pc = "idle"
    /\ fb_calls = NoCalls
    /\ fb_result = NoDict

\* One call of fetch_page_with_retry
RunFetch ==
    /\ ft_result.gotos = 0
    /\ ft_result' = fetch_page_with_retry(ft_input)
    /\ UNCHANGED << ft_input, extractvars, crawlvars, fbvars, aggvars >>

FetchSpec == FetchInit /\ [][RunFetch]_vars

\* ------------------------------------------------------------------ merge of a page
MaxMerges == 2         \* page records merged one after the other
MaxEmbeds == 1         \* a page holds 0..MaxEmbeds embeds of a platform

\* Two of the six keys of the social_embeds dictionary, in its order
Platforms == << "instagram", "youtube" >>

\* self.collected_data after __init__: the page list, a text buffer, a list
\* that is extended, the social embeds and the colour set
NewCollected ==
    [pages |-> << >>, nav_text |-> << >>, faqs |-> << >>, social_embeds |-> << >>,
     colors |-> {}]

\* The records extract_comprehensive_data may hand to the merge, every
\* script of the extraction having run
PageRecords ==
    [nav_text : {"", "Home"},
     faqs : {<< >>, << [question |-> "q", answer |-> "a"] >>},
     social_embeds : [{ Platforms[i] : i \in 1..Len(Platforms) } -> 0..MaxEmbeds],
     colors : {{}, {"#111111"}}]

\* next((e for e in self.collected_data['social_embeds']
\*       if e.get('platform') == platform), None): the index of that entry, or 0
ExistingEmbed(embeds, platform) ==
    LET found == { k \in 1..Len(embeds) : embeds[k].platform = platform }
    IN  IF found = {} THEN 0 ELSE CHOOSE k \in found : \A j \in found : k <= j

\* 'Merge social embed counts': for each platform of the page with a positive
\* count, the entry of the platform has the count added, or a new entry is
\* appended.
RECURSIVE MergeEmbeds(_, _, _)
MergeEmbeds(embeds, found, i) ==
    IF i > Len(Platforms) THEN embeds
    ELSE LET platform == Platforms[i]
             count == found[platform]
             existing == ExistingEmbed(embeds, platform)
         IN  IF count > 0
             THEN IF existing # 0
                  THEN MergeEmbeds([embeds EXCEPT ![existing].count = @ + count], found, i + 1)
                  ELSE MergeEmbeds(Append(embeds, [platform |-> platform, count |-> count]),
                                   found, i + 1)
             ELSE MergeEmbeds(embeds, found, i + 1)

\* The block under results_lock that merges one page record
merge_page(cd, d) ==
    [pages |-> Append(cd.pages, d),
     nav_text |-> IF d.nav_text # "" THEN Append(cd.nav_text, d.nav_text) ELSE cd.nav_text,
     faqs |-> cd.faqs \o d.faqs,
     social_embeds |-> MergeEmbeds(cd.social_embeds, d.social_embeds, 1),
     colors |-> cd.colors \cup d.colors]

MergeInit ==
    /\ collected_data = NewCollected
    /\ set_order = "ascending"
    /\ agg_results = << >>
    /\ CrawlerIdle
    /\ fb_input = NoFallbackInput
    /\ fb_pc = "idle"
    /\ fb_calls = NoCalls
    /\ fb_result = NoDict
    /\ FunctionsIdle

\* A worker merges the record of one more page
MergePage ==
    /\ Len(collected_data.pages) < MaxMerges
    /\ \E d \in PageRecords : collected_data' = merge_page(collected_data, d)
    /\ UNCHANGED << set_order, agg_results, crawlvars, fbvars, extractvars, fetchvars >>

MergeSpec == MergeInit /\ [][MergePage]_vars

\* ------------------------------------------------------------------ claims
\* The worker holds a task it has marked and is loading, checking or merging it.
InFlight == {"fetch", "detect", "merge"}

C1_Inv ==
    /\ \A u \in DOMAIN fetch_count : fetch_count[u] <= 1 /\ u \in visited_urls
    /\ \A w \in Workers : pc[w] \in InFlight => item[w].url \in visited_urls
    /\ \A w1, w2 \in Workers :
          (w1 # w2 /\ pc[w1] \in InFlight /\ pc[w2] \in InFlight)
             => item[w1].url # item[w2].url

C1_FetchAfterOwnMark ==
    \A w \in Workers :
        (pc[w] # "fetch" /\ pc'[w] = "fetch")
           => /\ item[w].url \notin visited_urls
              /\ visited_urls' = visited_urls \cup {item[w].url}

\* C1: under every interleaving of the workers a worker enters the fetch of a
\* URL only by the step in which it itself inserts that URL, not yet present,
\* into visited_urls; no URL has more than one fetch started, neither by two
\* workers at once nor later; and visited_urls never shrinks.
C1_FetchedAtMostOnce ==
    /\ []C1_Inv
    /\ [][C1_FetchAfterOwnMark]_vars
    /\ [][visited_urls \subseteq visited_urls']_vars

\* A worker holds a second task for a URL that was already marked and fetched,
\* while the budget would still admit a page.
C1_Witness ==
    \E w \in Workers :
        /\ pc[w] = "mark"
        /\ item[w].url \in DOMAIN fetch_count
        /\ ~BudgetExhausted

\* scheme + host + path of a URL, query string and fragment stripped
NormalizedURL(u) == StripFragmentAndQuery(u)

\* C2: the collected page records, grouped by normalized URL, form groups of
\* at most one record, the record of the root URL included.
C2_OneRecordPerNormalizedUrl ==
    \A i, j \in 1..Len(pages) :
        i # j => NormalizedURL(pages[i].url) # NormalizedURL(pages[j].url)

\* C3: in every reachable state |visited_urls| <= max_pages and the number of
\* page records is at most |visited_urls|.
C3_BudgetRespected ==
    /\ Cardinality(visited_urls) <= max_pages
    /\ Len(pages) <= Cardinality(visited_urls)

\* The budget is used up by merged pages while two workers still hold or can
\* take further tasks.
C3_Witness ==
    /\ max_pages >= 2
    /\ Cardinality(visited_urls) = max_pages
    /\ Len(pages) = max_pages
    /\ pending_urls # << >>
    /\ \E w \in Workers : pc[w] = "mark" /\ item[w].url \notin visited_urls

\* C4: every URL whose fetch was started, every page record, every task of the
\* frontier and every task in flight has the host of the root URL.
C4_DomainConfinement ==
    /\ \A u \in DOMAIN fetch_count : Netloc(u) = domain
    /\ \A i \in 1..Len(pages) : Netloc(pages[i].url) = domain
    /\ \A i \in 1..Len(pending_urls) : Netloc(pending_urls[i].url) = domain
    /\ \A w \in Workers : pc[w] \in InFlight => Netloc(item[w].url) = domain

\* A merged record lists a link to another host and its links went through
\* the enqueue loop.
C4_Witness ==
    \E i \in 1..Len(pages) :
        /\ \E k \in 1..Len(pages[i].links) : Netloc(pages[i].links[k].url) # domain
        /\ pages[i].url \in DOMAIN fate
        /\ fate[pages[i].url] = "ok"
        /\ pages[i].depth < max_depth

C5_Inv ==
    /\ \A i \in 1..Len(pending_urls) :
          /\ pending_urls[i].depth \in 0..max_depth
          /\ pending_urls[i].depth = 0 => pending_urls[i].url = base_url
    /\ \A w \in Workers : item[w].depth \in 0..max_depth
    /\ \A i \in 1..Len(pages) : pages[i].depth \in 0..max_depth
    /\ phase = "init" =>
          pending_urls = << [url |-> base_url, depth |-> 0, priority |-> 100] >>

C5_PushOneDeeper ==
    \A w \in Workers :
        (pc[w] = "merge" /\ pc'[w] = "recheck" /\ Len(pending_urls') > Len(pending_urls))
           => /\ item[w].depth < max_depth
              /\ \A i \in (Len(pending_urls) + 1)..Len(pending_urls') :
                    pending_urls'[i].depth = item[w].depth + 1

\* C5: the root task has depth 0, a task pushed for a link of a page of depth d
\* has depth d + 1 and is pushed only when d < max_depth, and every task of the
\* frontier, every task a worker holds and every page record has
\* depth <= max_depth.
C5_DepthRespected ==
    /\ []C5_Inv
    /\ [][C5_PushOneDeeper]_vars

\* A page at depth max_depth was merged with outbound same-domain links, none
\* of which was pushed.
C5_Witness ==
    \E i \in 1..Len(pages) :
        /\ pages[i].depth = max_depth
        /\ \E k \in 1..Len(pages[i].links) :
              /\ Netloc(pages[i].links[k].url) = domain
              /\ StripFragmentAndQuery(pages[i].links[k].url) \notin visited_urls
        /\ pages[i].url \in DOMAIN fate
        /\ fate[pages[i].url] = "ok"

\* The distinct same-domain URLs, normalized, the root page links to
RootLinks ==
    { StripFragmentAndQuery(SiteLinks(base_url)[k].url) : k \in 1..Len(SiteLinks(base_url)) }
        \cap { u \in { StripFragmentAndQuery(SiteLinks(base_url)[k].url) :
                         k \in 1..Len(SiteLinks(base_url)) } : Netloc(u) = domain }

\* crawl() is over: every worker left its loop and crawl() returned its
\* result, or the browser never started
Terminated ==
    \/ phase = "raised"
    \/ phase = "returned" /\ \A w \in Workers : pc[w] = "done"

FateOf(u) == IF u \in DOMAIN fate THEN fate[u] ELSE "none"

RootEnqueued ==
    /\ FateOf(base_url) = "ok"
    /\ \E i \in 1..Len(pages) :
          pages[i].url = base_url /\ pages[i].links = SiteLinks(base_url)

C6_ExactlyBudgetWhenRootEnqueued ==
    ( /\ phase = "returned"
      /\ ~timed_out
      /\ RootEnqueued
      /\ Cardinality(RootLinks) >= max_pages )
    => Cardinality(visited_urls) = max_pages

FetchFailed == { u \in DOMAIN fate : fate[u] = "fetch_failed" }

\* The URLs that loaded, were extracted in full and merged without exception
LoadedNormally ==
    { u \in DOMAIN fate :
        /\ fate[u] = "ok"
        /\ \E i \in 1..Len(pages) : pages[i].url = u /\ pages[i].links = SiteLinks(u) }

\* C7: when the n processed tasks are k permanent fetch failures and n - k
\* pages that load and extract normally, the crawl completes and its result
\* has success = true, pages_crawled = n - k both at the top level and in
\* metrics, and metrics.pages_failed = k.
C7_PartialFailureCounts ==
    ( /\ phase = "returned"
      /\ ~timed_out
      /\ visited_urls = FetchFailed \cup LoadedNormally )
    => LET n == Cardinality(visited_urls)
           k == Cardinality(FetchFailed)
       IN  /\ result.success = TRUE
           /\ result.pages_crawled = n - k
           /\ result.metrics.pages_crawled = n - k
           /\ result.metrics.pages_failed = k

\* C8: crawl() raises only when the browser did not start (no page was
\* touched), and a returned result has success = false exactly when the root
\* URL could not be fetched.
C8_SuccessFalseIffRootUnreachable ==
    /\ phase = "raised" => visited_urls = {} /\ pages = << >>
    /\ (phase = "returned" /\ ~timed_out) =>
          (result.success = FALSE <=> FateOf(base_url) = "fetch_failed")

\* C9: run_crawl_with_fallback never raises and returns a dictionary with a
\* boolean success; it returns the browser crawler's result unchanged, the
\* HTTP fallback not invoked, exactly when that crawler returned a truthy
\* success; when the crawler raised or returned a falsy success the fallback
\* is invoked exactly once; and a fallback result has success = true only if
\* at least one product was found.
C9_FallbackContract ==
    /\ fb_pc # "raised"
    /\ fb_calls.enhanced_scrape <= 1
    /\ fb_pc = "returned" =>
          /\ fb_result.success \in BOOLEAN
          /\ "success" \in fb_result.keys /\ fb_result.kind["success"] = "bool"
          /\ fb_calls.run_comprehensive_crawl = 1
          /\ IF fb_input.browser = "truthy"
             THEN fb_calls.enhanced_scrape = 0 /\ fb_result = BrowserResult(TRUE)
             ELSE /\ fb_calls.enhanced_scrape = 1
                  /\ fb_result.success =>
                        fb_input.products.kind = "list" /\ fb_input.products.n >= 1

\* The crawler returned a falsy success and the fallback, invoked once, found
\* products.
C9_Witness ==
    /\ fb_pc = "returned"
    /\ fb_input.browser = "falsy"
    /\ fb_calls.enhanced_scrape = 1
    /\ fb_result.success

\* The fields of the result create_brand_data_structure reads
BrandExtractorKeys ==
    {"text", "nav_text", "reviews_text", "logos", "colors", "images", "ads",
     "char_count", "pages_crawled"}

\* C10: every returned result with success = true, from the browser crawler
\* or from the HTTP fallback, carries the fields the brand extractor reads,
\* and ctas and visual_elements have the kind of value they have in the
\* browser crawler's result.
C10_UniformExitShape ==
    (fb_pc = "returned" /\ fb_result.success) =>
        /\ BrandExtractorKeys \subseteq fb_result.keys
        /\ \A k \in {"ctas", "visual_elements"} :
              k \in fb_result.keys /\ fb_result.kind[k] = CrawlResultKind[k]

\* C11: once the wall-clock timeout of the crawl has expired, no new fetch
\* starts and no shared state (visited set, frontier, page records, counters)
\* is mutated any more, and the crawl has returned a result with success =
\* true whose counts are those of the moment of the timeout.
C11_StopsAtTimeout ==
    [][timed_out =>
          /\ UNCHANGED << visited_urls, pending_urls, pages, metrics, fetch_count >>
          /\ phase = "returned" /\ result.success
          /\ result.metrics = metrics]_vars

ExampleLogos ==
    << [url |-> "a.png", prominence |-> 50, classes |-> "dark-logo"],
       [url |-> "a.png", prominence |-> 80, classes |-> ""],
       [url |-> "b.png", prominence |-> 10, classes |-> "light-logo"] >>

\* C13: in every aggregated result a logo URL of which a collected instance
\* has "dark" in its class/alt text is typed dark, a logo whose class/alt text
\* has "light" is typed light, and for the example logos the result has
\* logos.dark = a.png and logos.light = b.png.
C13_LogoClassification ==
    \A r \in 1..Len(agg_results) :
        LET logos == agg_results[r].logos
        IN  /\ \A j \in 1..Len(logos.all) :
                  /\ (\E i \in 1..Len(collected_data.logos) :
                         /\ collected_data.logos[i].url = logos.all[j].url
                         /\ "dark" \in WordsIn(collected_data.logos[i].classes))
                     => logos.all[j].type = "dark"
                  /\ "light" \in WordsIn(logos.all[j].classes) => logos.all[j].type = "light"
            /\ collected_data.logos = ExampleLogos
                  => logos.dark = "a.png" /\ logos.light = "b.png"

\* The candidate that stands for its URL: the earliest collected among those
\* of highest prominence
BestCandidate(logos, i) ==
    \A k \in 1..Len(logos) :
        logos[k].url = logos[i].url =>
            \/ logos[k].prominence < logos[i].prominence
            \/ logos[k].prominence = logos[i].prominence /\ k >= i

\* C14: logos.all holds each distinct logo URL at most once, the entry kept
\* for a URL is its highest-prominence candidate (the earliest collected on
\* ties), the entries are in non-increasing prominence order and there are at
\* most 20 of them.
C14_LogoDedupe ==
    \A r \in 1..Len(agg_results) :
        LET all == agg_results[r].logos.all
            logos == collected_data.logos
        IN  /\ \A i, j \in 1..Len(all) : i # j => all[i].url # all[j].url
            /\ \A j \in 1..Len(all) :
                  \E i \in 1..Len(logos) :
                      /\ BestCandidate(logos, i)
                      /\ logos[i].url = all[j].url
                      /\ logos[i].prominence = all[j].prominence
                      /\ logos[i].classes = all[j].classes
            /\ \A j \in 1..Len(all) - 1 : all[j].prominence >= all[j + 1].prominence
            /\ Len(all) <= 20

\* Aggregated: two candidates of one URL tie on prominence with different
\* class text, next to a third logo.
C14_Witness ==
    /\ agg_results # << >>
    /\ Len(agg_results[1].logos.all) = 2
    /\ \E i, k \in 1..Len(collected_data.logos) :
          /\ i < k
          /\ collected_data.logos[i].url = collected_data.logos[k].url
          /\ collected_data.logos[i].prominence = collected_data.logos[k].prominence
          /\ collected_data.logos[i].classes # collected_data.logos[k].classes
          /\ BestCandidate(collected_data.logos, i)

\* The FAQs that are not a repetition: the question is empty, or no earlier
\* FAQ has it
NotRepeated(faqs) ==
    { i \in 1..Len(faqs) :
        faqs[i].question = "" \/ \A k \in 1..(i - 1) : faqs[k].question # faqs[i].question }

\* The members of a set of indices in ascending order
Ascending(S) ==
    [j \in 1..Cardinality(S) |-> CHOOSE i \in S : Cardinality({ k \in S : k < i }) = j - 1]

\* C15: the FAQs of the result are, in first-seen order and up to the cap of
\* 30, the collected FAQs without those whose non-empty question repeats the
\* question of an earlier FAQ; FAQs with an empty question are all retained.
C15_FaqDedupe ==
    \A r \in 1..Len(agg_results) :
        agg_results[r].faqs =
            Take(Pick(collected_data.faqs, Ascending(NotRepeated(collected_data.faqs))), 30)

\* C16: for each of the OpenGraph, Twitter Card, meta-tag and Schema.org
\* dictionaries, the merged dictionary has exactly the keys present on some
\* page, and the value of a key is the one of the earliest merged page that
\* has the key.
C16_FirstPageWins ==
    \A r \in 1..Len(agg_results) :
        \A which \in StructuredKinds :
            LET sds == collected_data.structured_data
                merged == agg_results[r].structured_data[which]
            IN  /\ DOMAIN merged = UNION { DOMAIN sds[i][which] : i \in 1..Len(sds) }
                /\ \A k \in DOMAIN merged :
                      \E i \in 1..Len(sds) :
                          /\ k \in DOMAIN sds[i][which]
                          /\ \A j \in 1..(i - 1) : k \notin DOMAIN sds[j][which]
                          /\ merged[k] = sds[i][which][k]

\* Aggregated: two pages give different values for one OpenGraph key, and the
\* later page has a key the earlier one lacks.
C16_Witness ==
    /\ agg_results # << >>
    /\ Len(collected_data.structured_data) = 2
    /\ LET first == collected_data.structured_data[1]["openGraph"]
           second == collected_data.structured_data[2]["openGraph"]
       IN  /\ DOMAIN first = {"k1"}
           /\ DOMAIN second = {"k1", "k2"}
           /\ first["k1"] # second["k1"]
           /\ agg_results[1].structured_data["openGraph"]["k1"] = first["k1"]

\* C17: in every result |hero_sections| <= 10, |faqs| <= 30,
\* |product_bullets| <= 50, |pricing_data| <= 30, |disclaimers| <= 20,
\* |banners_carousels| <= 15, |team_members| <= 20, |case_studies| <= 15,
\* |events_data| <= 15, |general_forms| <= 15, |logos.all| <= 20,
\* |colors| <= 10, |images| <= 100 and |ads| <= 20, whatever was collected.
C17_OutputCaps ==
    \A r \in 1..Len(agg_results) :
        LET res == agg_results[r]
        IN  /\ Len(res.hero_sections) <= 10
            /\ Len(res.faqs) <= 30
            /\ Len(res.product_bullets) <= 50
            /\ Len(res.pricing_data) <= 30
            /\ Len(res.disclaimers) <= 20
            /\ Len(res.banners_carousels) <= 15
            /\ Len(res.team_members) <= 20
            /\ Len(res.case_studies) <= 15
            /\ Len(res.events_data) <= 15
            /\ Len(res.general_forms) <= 15
            /\ Len(res.logos.all) <= 20
            /\ Len(res.colors) <= 10
            /\ Len(res.images) <= 100
            /\ Len(res.ads) <= 20

\* Aggregated: more than 100 distinct images, all of them ads, were collected
\* and every other field was filled beyond its cap.
C17_Witness ==
    /\ agg_results # << >>
    /\ Len(collected_data.images) > 100
    /\ Len(collected_data.hero_sections) > 10
    /\ Cardinality(collected_data.colors) > 10
    /\ Len(agg_results[1].images) = 100
    /\ Len(agg_results[1].ads) = 20
    /\ Len(agg_results[1].product_bullets) = 50
    /\ Len(agg_results[1].colors) = 10

\* The URLs whose page failed as a page: not fetched, CAPTCHA or blocked
PageLevelFailures == { u \in DOMAIN fate : fate[u] \in {"fetch_failed", "captcha", "blocked"} }

\* C18: with a progress callback that does not raise, a page whose fetch
\* succeeded and whose extraction threw in some or all scripts is merged as a
\* record, counted in pages_crawled and not in pages_failed, and passes on to
\* link enqueueing: pages_failed counts only the pages that failed as pages,
\* and no merged page ends in the exception handler of the worker.
C18_GracefulDegradation ==
    progress_callback # "raises" =>
        /\ metrics.pages_failed = Cardinality(PageLevelFailures)
        /\ \A u \in DOMAIN fate : fate[u] # "raised"

\* C19: when the script of one signal group throws, every other group of the
\* returned data has the value it has when no script throws, whichever of
\* the two comes first in the extraction sequence.
C19_GroupIsolation ==
    DOMAIN ex_data # {} =>
        \A g \in Groups \ {ex_input.fails} :
            ex_data[g] = ExtractData(ex_input.page_type, "none")[g]

\* C20: one call of fetch_page_with_retry makes at most max_retries page
\* loads in all, the final fallback load included, sleeps only between
\* attempts, and returns false when every load fails.
C20_BoundedRetry ==
    ft_result.gotos > 0 =>
        /\ ft_result.gotos <= max_retries
        /\ ft_result.sleeps <= ft_result.gotos - 1
        /\ (\A i \in 1..ft_result.gotos : ft_input[i] # "ok") => ~ft_result.ok

\* The URLs whose processing ended the given way
Fated(how) == { u \in DOMAIN fate : fate[u] = how }

\* The worker leaves the bot detection for the head of its loop
SkipsPage(w) == pc[w] = "detect" /\ pc'[w] = "loop"

C21_Inv ==
    /\ metrics.captcha_count = Cardinality(Fated("captcha"))
    /\ metrics.blocked_count = Cardinality(Fated("blocked"))
    /\ \A u \in Fated("captcha") \cup Fated("blocked") :
          /\ Count(fetch_count, u) = 1
          /\ \A i \in 1..Len(pages) : pages[i].url # u

C21_SkipStep ==
    /\ \A w \in Workers :
          SkipsPage(w) =>
             /\ item[w].url \notin DOMAIN fate
             /\ item[w].url \in DOMAIN fate'
             /\ fate'[item[w].url] \in {"captcha", "blocked"}
             /\ UNCHANGED << pages, pending_urls, visited_urls, fetch_count, crawl_complete >>
             /\ item'[w] = NoItem
    /\ \A counter \in {"captcha_count", "blocked_count"} :
          metrics'[counter] # metrics[counter] =>
             /\ \E w \in Workers : SkipsPage(w)
             /\ metrics' = [metrics EXCEPT ![counter] = @ + 1, !.pages_failed = @ + 1]

\* C21: a step in which bot detection reports CAPTCHA or BLOCKED (it bumps
\* captcha_count or blocked_count) takes the worker straight back to the head
\* of its loop with no task in hand; that step bumps the detection's counter
\* and pages_failed by one each and leaves the page records, the frontier and
\* the fetch counts alone; such a URL was loaded once and has no page record.
C21_BotBlockedPageSkipped ==
    /\ []C21_Inv
    /\ [][C21_SkipStep]_vars

\* One page was skipped for a CAPTCHA, another for a block, and a worker has
\* taken a further task.
C21_Witness ==
    /\ Fated("captcha") # {}
    /\ Fated("blocked") # {}
    /\ \E w \in Workers : pc[w] = "mark"

\* The worker ends a run of handle_bot_detection on this step
DetectionRan(w) == pc[w] = "detect" /\ pc'[w] \in {"loop", "merge"}

\* What one run of the detection on the page of w reports, read off the
\* worker's next position, the detection's counters and the status it holds.
Reports(w, status) ==
    CASE status = "captcha" ->
            pc'[w] = "loop" /\ metrics'.captcha_count = metrics.captcha_count + 1
      [] status = "blocked" ->
            pc'[w] = "loop" /\ metrics'.blocked_count = metrics.blocked_count + 1
      [] OTHER ->
            pc'[w] = "merge" /\ detection'[w].status = status

C22_DetectStep ==
    \A w \in Workers :
        DetectionRan(w) =>
           LET m == page[w]
               url == item[w].url
           IN  \* the priority order, for a detection that runs to its end
               /\ ~m.throws =>
                     /\ m.cloudflare => Reports(w, "cloudflare")
                     /\ (~m.cloudflare /\ m.captcha) => Reports(w, "captcha")
                     /\ (~m.cloudflare /\ ~m.captcha /\ m.blocked) => Reports(w, "blocked")
                     /\ (~m.cloudflare /\ ~m.captcha /\ ~m.blocked) => Reports(w, "ok")
               \* a detection that fails midway reports 'ok'
               /\ m.throws => Reports(w, "ok")
               \* one grace sleep for a challenge, none otherwise
               /\ detection'[w].sleeps = IF ~m.throws /\ m.cloudflare THEN 1 ELSE 0
               \* a challenged page goes on to extraction and is not counted
               /\ (~m.throws /\ m.cloudflare) =>
                     /\ pc'[w] = "merge"
                     /\ page_data'[w].url = url
                     /\ UNCHANGED << metrics, fate >>
               \* the first and only run for this URL
               /\ url \in visited_urls
               /\ Count(fetch_count, url) = 1
               /\ url \notin DOMAIN fate
               /\ \A v \in Workers \ {w} :
                     pc[v] \in InFlight \cup {"recheck", "swallowed"} => item[v].url # url

\* C22: a run of the bot detection reports the challenge when challenge
\* markers are present, else the CAPTCHA when CAPTCHA markers are present,
\* else the block when a block phrase is present, else 'ok'; it sleeps once
\* for a challenge and not otherwise; it always ends in one step, runs for a
\* URL that was loaded once and whose processing has not ended and that no
\* other worker is processing, and a challenged page goes on to extraction
\* with no counter changed.
C22_BoundedBotHandling == [][C22_DetectStep]_vars

\* A page showing challenge and CAPTCHA markers together was reported as a
\* challenge and extracted, after another page was skipped for a CAPTCHA.
C22_Witness ==
    /\ \E w \in Workers :
          /\ pc[w] = "merge"
          /\ detection[w] = [status |-> "cloudflare", sleeps |-> 1]
    /\ metrics.captcha_count = 1
    /\ metrics.pages_failed = 1

\* The tasks a step pushed onto the frontier
Pushed == { pending_urls'[i] : i \in (Len(pending_urls) + 1)..Len(pending_urls') }

\* C23: a push changes the frontier only for a task whose URL is not in
\* visited_urls and only while visited_urls holds fewer than max_pages URLs.
C23_PushGuard ==
    [][\A task \in Pushed :
          /\ task.url \notin visited_urls
          /\ Cardinality(visited_urls) < max_pages]_vars

\* The worker leaves its loop through the 'break' of the pop timeout
Drains(w) ==
    /\ pc[w] = "loop" /\ pc'[w] = "done"
    /\ ~crawl_complete
    /\ UNCHANGED phase

\* C24: a worker leaves through the drain (its pop timed out on an empty
\* frontier with visited_urls non-empty) only when no other worker is loading,
\* checking or merging a page whose links are not yet pushed; and no worker
\* leaves through the drain while visited_urls is empty.
C24_DrainMeansNoMoreWork ==
    [][\A w \in Workers :
          Drains(w) =>
             /\ pending_urls = << >>
             /\ visited_urls # {}
             /\ \A v \in Workers \ {w} : pc[v] \notin InFlight]_vars

\* The worker is through with the page it had marked: the load failed, the
\* page was skipped for a CAPTCHA or a block, or it went through the merge
\* (with or without an exception) and the worker is past the end of the try.
FinishesPage(w) ==
    /\ pc[w] \in {"fetch", "detect", "swallowed", "recheck"}
    /\ pc'[w] \in {"loop", "done"}
    /\ UNCHANGED phase

\* C25: a worker that is through with a visited page, however the page ended,
\* goes back to the head of its loop only when fewer than max_pages URLs are
\* visited; otherwise it sets crawl_complete and leaves its loop.
C25_RecheckAfterEveryPage ==
    [][\A w \in Workers :
          FinishesPage(w) =>
             IF BudgetExhausted
             THEN crawl_complete' /\ pc'[w] = "done"
             ELSE pc'[w] = "loop"]_vars

\* C26: every write a worker made to visited_urls, to the collected data or
\* to a counter of the metrics was made with the shared lock held.
C26_LockDiscipline == \A x \in writes : x.locked

\* The list t is the list s with entries added at its end
Extends(s, t) == Len(s) <= Len(t) /\ SubSeq(t, 1, Len(s)) = s

\* C27: a merge changes the collected data only by adding at the end of a
\* list or of a text buffer or by adding to a set: every entry stored before
\* the merge, the social-embed entries included, is still there, unchanged
\* and in its place.
C27_AppendOnly ==
    [][/\ Extends(collected_data.pages, collected_data'.pages)
       /\ Extends(collected_data.nav_text, collected_data'.nav_text)
       /\ Extends(collected_data.faqs, collected_data'.faqs)
       /\ Extends(collected_data.social_embeds, collected_data'.social_embeds)
       /\ collected_data.colors \subseteq collected_data'.colors]_vars

\* C28: pages_crawled is the number of page records, and the visited URLs
\* whose processing has ended account for one increment each, of
\* pages_crawled or of pages_failed: no URL is counted in both.
C28_NoLossNoDoubleCount ==
    /\ metrics.pages_crawled = Len(pages)
    /\ metrics.pages_crawled + metrics.pages_failed = Cardinality(DOMAIN fate)

\* The worker goes through the merge of its record, the progress callback and
\* the enqueue loop on this step
MergesPage(w) == pc[w] = "merge" /\ pc'[w] = "recheck"

\* C29: whether the progress callback is absent, returns or raises, the merge
\* of a record whose extraction ran through leaves pages_failed alone, counts
\* the page as crawled and puts the page's links through the enqueue loop.
C29_CallbackNotRequired ==
    [][\A w \in Workers :
          (MergesPage(w) /\ page_data[w].colors = "dict") =>
             /\ metrics'.pages_crawled = metrics.pages_crawled + 1
             /\ metrics'.pages_failed = metrics.pages_failed
             /\ pending_urls' =
                   IF MayDescend(item[w].depth)
                   THEN pending_urls \o ChildTasks(page_data[w].links, item[w].depth)
                   ELSE pending_urls]_vars

\* The workers were started and the wall-clock timeout has not expired
StartedNoTimeout == phase \in {"running", "returned"} /\ ~timed_out

\* C30: once the workers are started and as long as the timeout has not
\* expired, a frontier that holds a task while fewer than max_pages URLs are
\* visited has a worker still in its loop; so a crawl that returns without the
\* timeout leaves an empty frontier or max_pages visited URLs.
C30_NoStrandedWork ==
    /\ (StartedNoTimeout /\ pending_urls # << >> /\ Cardinality(visited_urls) < max_pages)
          => \E w \in Workers : pc[w] # "done"
    /\ (StartedNoTimeout /\ phase = "returned")
          => (pending_urls = << >> \/ Cardinality(visited_urls) = max_pages)

\* One worker has left through the drain while the other was on the root
\* page; the other has since pushed the page's links and is still in its
\* loop, with budget left.
C30_Witness ==
    /\ phase = "running" /\ ~timed_out /\ ~crawl_complete
    /\ pending_urls # << >>
    /\ Cardinality(visited_urls) < max_pages
    /\ \E w, v \in Workers : pc[w] = "done" /\ pc[v] = "loop"

====
